---- MODULE Spec2Model ----
(***************************************************************************)
(* Model of src/param_server.py: a parameter registry (pickledb dict)      *)
(* driven by put/get/list/purge/save/load commands, with a per-namespace   *)
(* bounded queue of change entries drained by process_changes().           *)
(*                                                                         *)
(* Python objects have identity.  A record (dict) lives in recs and is     *)
(* referred to by its index; a list or dict value lives in vals.  The      *)
(* registry, the queues and the records hold indices, so that two          *)
(* references to one object see each other's mutations, as in the code.   *)
(*                                                                         *)
(* dbParam.get returns the stored object itself and dbParam.set stores the *)
(* object it is given (pickledb keeps a plain dict), so the registry, a    *)
(* queue and a handler can hold the same dict.                             *)
(*                                                                         *)
(* Strings the code takes apart or joins (namespace, name) are sequences   *)
(* of one-character strings; all other strings are TLA+ strings.           *)
(*                                                                         *)
(* An exception that leaves parameter_cb is the response "fault"; what it  *)
(* did before raising stays done and the loop goes on.                     *)
(*                                                                         *)
(* A run has one of three workloads (mode).  "wide": every kind of message *)
(* over the full alphabets, a few steps deep.  "queue": one client putting *)
(* the same parameter until a queue has overflowed, any number of passes   *)
(* of process_changes, few other commands.  "file": String parameters      *)
(* that are saved, purged and loaded.  born and pubIds record history      *)
(* (what a record showed when it was built, which record was published);   *)
(* the program does not read them.                                         *)
(***************************************************************************)
EXTENDS Naturals, Sequences, FiniteSets, TLC

VARIABLES
    pc,         \* "start" before the default file is loaded, then "run"
    db,         \* dbParam: insertion-ordered <<[key, rid]>>, rid an index of recs
    recs,       \* every param_entry dict built so far
    vals,       \* every list or dict value object built so far
    chans,      \* _parameter_namespace_pubs: per namespace, entry state and queue
    adv,        \* per namespace, the number of pub.advertise() calls
    published,  \* per namespace, the messages given to pub.publish()
    files,      \* the files under parameters/
    last,       \* the message of the last call of parameter_cb
    prev,       \* the message of the call before it
    resp,       \* what the last call returned ("fault": an exception left it)
    ncmds,      \* calls of parameter_cb so far
    nsteps,     \* the calls and passes so far that count against the run's budget
    mode,       \* the workload of the run: "wide", "queue" or "file"
    born,       \* per record of recs: what it showed when its command ended,
                \* and whether that command put it on a queue
    pubIds      \* per namespace, the indices of the records given to pub.publish()

vars == <<pc, db, recs, vals, chans, adv, published, files, last, prev, resp, ncmds,
          nsteps, mode, born, pubIds>>

----------------------------------------------------------------------------
(* Program constants *)

QMAX == 10

MSGTYPE_LIST == "List"

MSGTYPE_DICT == "Dict"

ALL == <<"@">>

DefaultFile == "default.parm"

(* Bounds of the model *)

(* Commands handled plus passes of process_changes in one run *)
MaxSteps == 2

(* A "queue" run: records built beyond QMAX, and commands other than put *)
ExtraPuts == 2

MaxExtra == 1

(* A "file" run: commands handled *)
MaxFileSteps == 4

----------------------------------------------------------------------------
(* Input alphabets.  Namespaces are the namespaces of puts and of file     *)
(* elements; Filters adds the '@' of the filter arguments.                 *)

Namespaces == {<<"a">>, <<"b">>}

Filters == Namespaces \cup {ALL}

Nodenames == {"n1", "n2"}

Types == {"String", "List", "Dict"}

PlainNames == {<<"k">>}

PosNames == {<<"k", ":", "[">>, <<"k", ":", "]">>, <<"k", ":", "a">>,
             <<"k", ":", "a", ":", "b">>}

Filenames == {DefaultFile}

(* A value as a message or a response carries it: by content. *)
Str(s) == [kind |-> "str", s |-> s, items |-> <<>>, pairs |-> <<>>]

Lst(items) == [kind |-> "list", s |-> "", items |-> items, pairs |-> <<>>]

Dct(pairs) == [kind |-> "dict", s |-> "", items |-> <<>>, pairs |-> pairs]

(* The value of a put that names a parameter *)
Values == {Str("x"), Lst(<<"x", "y">>), Dct(<<[k |-> <<"a">>, v |-> "x"]>>)}

(* The value of a put that names a position in a parameter *)
Elements == {Str("y")}

(* A parameter element of a parameters file. *)
Elem(ns, name, type, value) == [ns |-> ns, name |-> name, type |-> type, value |-> value]

NoFile == [exists |-> FALSE, doc |-> <<>>]

File(doc) == [exists |-> TRUE, doc |-> doc]

InitFiles == {NoFile,
              File(<<Elem(<<"a">>, <<"k">>, "String", "x"),
                     Elem(<<"b">>, <<"k">>, "String", "y")>>)}

----------------------------------------------------------------------------
(* Messages *)

Msg(cmd, namespace, nodename, type, name, value, filename, publish_change) ==
    [cmd |-> cmd, namespace |-> namespace, nodename |-> nodename, type |-> type,
     name |-> name, value |-> value, filename |-> filename,
     publish_change |-> publish_change]

NoMsg == Msg("", <<>>, "", "", <<>>, Str(""), "", FALSE)

PutMsg(cmd, n, nd, t, nm, v) == Msg(cmd, n, nd, t, nm, v, "", FALSE)

GetMsg(cmd, n, nm) == Msg(cmd, n, "", "", nm, Str(""), "", FALSE)

NsMsg(cmd, n) == Msg(cmd, n, "", "", <<>>, Str(""), "", FALSE)

FileMsg(cmd, f, n, p) == Msg(cmd, n, "", "", <<>>, Str(""), f, p)

(* str.lower() on the command words the model sends *)
Lower(c) ==
    CASE c = "PUT" -> "put"
      [] c = "Get" -> "get"
      [] c = "LIST" -> "list"
      [] c = "Purge" -> "purge"
      [] c = "SAVE" -> "save"
      [] c = "Load" -> "load"
      [] OTHER -> c

Resp(kind, data) == [kind |-> kind, data |-> data]

OK == Resp("OK", <<>>)

FAULT == Resp("fault", <<>>)

----------------------------------------------------------------------------
(* Strings *)

Contains(str, c) == \E i \in 1..Len(str) : str[i] = c

RECURSIVE Split(_, _)
Split(str, sep) ==
    IF ~Contains(str, sep) THEN <<str>>
    ELSE LET i == CHOOSE i \in 1..Len(str) :
                      str[i] = sep /\ \A j \in 1..(i - 1) : str[j] # sep
         IN <<SubSeq(str, 1, i - 1)>> \o Split(SubSeq(str, i + 1, Len(str)), sep)

ParamName(namespace, name) == namespace \o <<"/">> \o name

----------------------------------------------------------------------------
(* pickledb: an insertion-ordered dict from key to object reference *)

Exists(d, key) == \E i \in 1..Len(d) : d[i].key = key

DbGet(d, key) == d[CHOOSE i \in 1..Len(d) : d[i].key = key].rid

DbSet(d, key, rid) ==
    IF Exists(d, key)
    THEN [i \in 1..Len(d) |-> IF d[i].key = key THEN [key |-> key, rid |-> rid] ELSE d[i]]
    ELSE Append(d, [key |-> key, rid |-> rid])

----------------------------------------------------------------------------
(* Heap objects *)

(* The keys of a param_entry dict as put_parameter_in_db builds it. *)
EntryKeys == {"nodename", "namespace", "type", "name", "position", "value"}

(* The keys of the placeholder dict of a get that misses. *)
PlaceholderKeys == {"namespace", "type", "name", "value", "found"}

(* A reference to a value: a str by content, a list or dict by identity. *)
Ref(kind, s, id) == [kind |-> kind, s |-> s, id |-> id]

(* What a reference shows when it is read: the value by content. *)
DerefValue(r, vs) ==
    IF r.kind = "str" THEN Str(r.s)
    ELSE IF r.kind = "list" THEN Lst(vs[r.id].items)
    ELSE Dct(vs[r.id].pairs)

(* A record as a message carries it (serialised when the message is built). *)
Deref(rec, vs) == [rec EXCEPT !.value = DerefValue(rec.value, vs)]

HasKey(pairs, k) == \E i \in 1..Len(pairs) : pairs[i].k = k

(* d[k] = v on an insertion-ordered dict *)
DictSet(pairs, k, v) ==
    IF HasKey(pairs, k)
    THEN [i \in 1..Len(pairs) |-> IF pairs[i].k = k THEN [k |-> k, v |-> v] ELSE pairs[i]]
    ELSE Append(pairs, [k |-> k, v |-> v])

State(d, rs, vs, cs) == [db |-> d, recs |-> rs, vals |-> vs, chans |-> cs]

NoChannel == [st |-> "absent", q |-> <<>>]

Enqueue_DropNewest(q, rid) == IF Len(q) = QMAX THEN q ELSE Append(q, rid)

Enqueue_NoEvict(q, rid) == Append(q, rid)

(* Queue.get_nowait(); Queue.put_nowait(entry) under the QMAX test *)
Enqueue(q, rid) == Append(IF Len(q) = QMAX THEN Tail(q) ELSE q, rid)

----------------------------------------------------------------------------
(* put_parameter_in_db *)

(* The unpacking pname, pos = parts *)
Unpack(name, parts) ==
    IF Len(parts) # 2
    THEN \* ValueError: the unpacking needs exactly two parts
         [raised |-> TRUE, pname |-> name, pos |-> <<>>]
    ELSE [raised |-> FALSE, pname |-> parts[1], pos |-> <<parts[2]>>]

(* pname = name; pos = None; if ':' in name: pname, pos = name.split(":") *)
SplitName(name) ==
    IF ~Contains(name, ":")
    THEN [raised |-> FALSE, pname |-> name, pos |-> <<>>]
    ELSE Unpack(name, Split(name, ":"))

(* if namespace not in _parameter_namespace_pubs: create its queue *)
EnsureChannel(s, namespace) ==
    IF s.chans[namespace].st = "absent"
    THEN [s EXCEPT !.chans[namespace] = [st |-> "queue", q |-> <<>>]]
    ELSE s

(* The list or dict of the message is an object of its own. *)
AllocValue(s, value) ==
    IF value.kind = "str" THEN s
    ELSE [s EXCEPT !.vals = Append(@, [items |-> value.items, pairs |-> value.pairs])]

ValueRef(value, id) ==
    IF value.kind = "str" THEN Ref("str", value.s, 0) ELSE Ref(value.kind, "", id)

(* param_entry as first built *)
ParamEntry(nodename, namespace, value_type, pname, pos, vref) ==
    [keys |-> EntryKeys, nodename |-> nodename, namespace |-> namespace,
     type |-> value_type, name |-> pname, position |-> pos,
     value |-> vref, found |-> FALSE]

ListAdd_TailOnly(items, tok, v) ==
    IF tok = <<"[">> \/ tok = <<"]">> THEN Append(items, v) ELSE items

(* The list branch: insert at the head, append, or leave (and log an error) *)
ListAdd(items, tok, v) ==
    IF tok = <<"[">> THEN <<v>> \o items
    ELSE IF tok = <<"]">> THEN Append(items, v)
    ELSE items

(* The branches on the type of the existing value: the existing list or    *)
(* dict object is changed in place and becomes the value of the entry.     *)
AddElement(s, entry, existing_item, tok, v) ==
    IF existing_item.value.kind = "list"
    THEN [vals |-> [s.vals EXCEPT ![existing_item.value.id].items = ListAdd(@, tok, v)],
          entry |-> [entry EXCEPT !.value = existing_item.value, !.type = MSGTYPE_LIST]]
    ELSE IF existing_item.value.kind = "dict"
    THEN [vals |-> [s.vals EXCEPT ![existing_item.value.id].pairs = DictSet(@, tok, v)],
          entry |-> [entry EXCEPT !.value = existing_item.value, !.type = MSGTYPE_DICT]]
    ELSE [vals |-> s.vals, entry |-> entry]

(* if pos is not None: ... ; a warning is all that an absent key gets *)
AtPosition(s, param_name, entry, pos, v) ==
    IF pos # <<>> /\ Exists(s.db, param_name)
    THEN AddElement(s, entry, s.recs[DbGet(s.db, param_name)], pos[1], v)
    ELSE [vals |-> s.vals, entry |-> entry]

(* dbParam.set(param_name, param_entry), then the queue when publish_change: *)
(* the registry and the queue hold the same entry object.                   *)
StoreEntry(s, namespace, param_name, r, publish_change) ==
    State(DbSet(s.db, param_name, Len(s.recs) + 1),
          Append(s.recs, r.entry),
          r.vals,
          IF publish_change
          THEN [s.chans EXCEPT ![namespace].q = Enqueue(@, Len(s.recs) + 1)]
          ELSE s.chans)

PutAt(s, namespace, nodename, value_type, sp, value, publish_change) ==
    StoreEntry(s, namespace, ParamName(namespace, sp.pname),
               AtPosition(s, ParamName(namespace, sp.pname),
                          ParamEntry(nodename, namespace, value_type, sp.pname, sp.pos,
                                     ValueRef(value, Len(s.vals))),
                          sp.pos, value.s),
               publish_change)

PutSplit(s, namespace, nodename, value_type, sp, value, publish_change) ==
    IF sp.raised
    THEN [s |-> s, raised |-> TRUE]
    ELSE [s |-> PutAt(AllocValue(s, value), namespace, nodename, value_type, sp, value,
                      publish_change),
          raised |-> FALSE]

PutParameterInDb(s, namespace, nodename, value_type, name, value, publish_change) ==
    PutSplit(EnsureChannel(s, namespace), namespace, nodename, value_type,
             SplitName(name), value, publish_change)

----------------------------------------------------------------------------
(* get_parameter_from_db *)

Placeholder_Found(namespace, name) ==
    [keys |-> PlaceholderKeys, nodename |-> "", namespace |-> namespace,
     type |-> "String", name |-> name, position |-> <<>>,
     value |-> Str("?"), found |-> TRUE]

Placeholder(namespace, name) ==
    [keys |-> PlaceholderKeys, nodename |-> "", namespace |-> namespace,
     type |-> "String", name |-> name, position |-> <<>>,
     value |-> Str("?"), found |-> FALSE]

(* existing_item['found'] = True *)
MarkFound(rec) == [rec EXCEPT !.keys = @ \cup {"found"}, !.found = TRUE]

GetParameterFromDb_NoFound(s, namespace, name) ==
    IF ~Exists(s.db, ParamName(namespace, name))
    THEN [s |-> s, msg |-> Resp("dict", <<Placeholder(namespace, name)>>)]
    ELSE [s |-> s,
          msg |-> Resp("dict", <<Deref(s.recs[DbGet(s.db, ParamName(namespace, name))],
                                       s.vals)>>)]

(* The hit: the object the registry holds is marked and sent. *)
GetExisting(s, rid) ==
    [s |-> [s EXCEPT !.recs[rid] = MarkFound(@)],
     msg |-> Resp("dict", <<Deref(MarkFound(s.recs[rid]), s.vals)>>)]

GetParameterFromDb(s, namespace, name) ==
    IF ~Exists(s.db, ParamName(namespace, name))
    THEN [s |-> s, msg |-> Resp("dict", <<Placeholder(namespace, name)>>)]
    ELSE GetExisting(s, DbGet(s.db, ParamName(namespace, name)))

----------------------------------------------------------------------------
(* The list and purge branches of parameter_cb *)

Matches_NoSentinel(s, e, namespace) == namespace = s.recs[e.rid].namespace

Matches(s, e, namespace) == namespace = ALL \/ namespace = s.recs[e.rid].namespace

RECURSIVE ListItems(_, _, _)
ListItems(s, d, namespace) ==
    IF d = <<>> THEN <<>>
    ELSE (IF Matches(s, Head(d), namespace)
          THEN <<Deref(s.recs[Head(d).rid], s.vals)>> ELSE <<>>)
         \o ListItems(s, Tail(d), namespace)

Purge_AllAlways(s, namespace) == [s EXCEPT !.db = <<>>]

Purge_NoSentinel(s, namespace) ==
    [s EXCEPT !.db = SelectSeq(s.db, LAMBDA e : namespace # s.recs[e.rid].namespace)]

Purge(s, namespace) ==
    IF namespace = ALL
    THEN [s EXCEPT !.db = <<>>]
    ELSE [s EXCEPT !.db = SelectSeq(s.db,
                              LAMBDA e : namespace # s.recs[e.rid].namespace)]

----------------------------------------------------------------------------
(* save_parameters_to_file *)

RECURSIVE Join(_)
Join(chars) == IF chars = <<>> THEN "" ELSE Head(chars) \o Join(Tail(chars))

Quote(str) == "'" \o str \o "'"

RECURSIVE ReprItems(_)
ReprItems(items) ==
    IF items = <<>> THEN ""
    ELSE Quote(Head(items)) \o
         (IF Len(items) = 1 THEN "" ELSE ", " \o ReprItems(Tail(items)))

RECURSIVE ReprPairs(_)
ReprPairs(pairs) ==
    IF pairs = <<>> THEN ""
    ELSE Quote(Join(Head(pairs).k)) \o ": " \o Quote(Head(pairs).v) \o
         (IF Len(pairs) = 1 THEN "" ELSE ", " \o ReprPairs(Tail(pairs)))

(* The text ElementTree writes for an attribute value: a str as it is, a    *)
(* list or dict through "%s" formatting.                                   *)
AttribText(v) ==
    IF v.kind = "str" THEN v.s
    ELSE IF v.kind = "list" THEN "[" \o ReprItems(v.items) \o "]"
    ELSE "{" \o ReprPairs(v.pairs) \o "}"

SaveElem(existing_item, vs) ==
    Elem(existing_item.namespace, existing_item.name, existing_item.type,
         AttribText(DerefValue(existing_item.value, vs)))

RECURSIVE SaveElems(_, _, _)
SaveElems(s, d, namespace) ==
    IF d = <<>> THEN <<>>
    ELSE (IF Matches(s, Head(d), namespace)
          THEN <<SaveElem(s.recs[Head(d).rid], s.vals)>>
          ELSE <<>>)
         \o SaveElems(s, Tail(d), namespace)

SaveParametersToFile(s, fs, filename, namespace) ==
    [fs EXCEPT ![filename] = File(SaveElems(s, s.db, namespace))]

----------------------------------------------------------------------------
(* load_parameters_from_file, load_parameter_from_xml *)

(* ET.parse reads the file as minidom's toprettyxml wrote it.  toprettyxml  *)
(* escapes & < > " in an attribute value and writes a tab, line feed or    *)
(* carriage return as the character itself; the parser then reads each of  *)
(* them as one space (attribute-value normalisation).                      *)
WhiteSpace == {"\t", "\n", "\r"}

NormChars(chars) ==
    [i \in 1..Len(chars) |-> IF chars[i] \in WhiteSpace THEN " " ELSE chars[i]]

(* The texts of the model that hold a white-space character, spelled out *)
Spelled == {<<"a", "\n", "b">>}

NormText(text) ==
    IF \E cs \in Spelled : Join(cs) = text
    THEN Join(NormChars(CHOOSE cs \in Spelled : Join(cs) = text))
    ELSE text

ParsedElem(e) == Elem(NormChars(e.ns), NormChars(e.name), NormText(e.type),
                      NormText(e.value))

ParsedDoc(doc) == [i \in 1..Len(doc) |-> ParsedElem(doc[i])]

LoadParameterFromXml(s, element, publish_change) ==
    PutParameterInDb(s, element.ns, "default", element.type, element.name,
                     Str(element.value), publish_change)

RECURSIVE LoadElems(_, _, _, _)
(* The rest of the loop after one child, unless its put raised. *)
LoadRest(r, rest, namespace, publish_change) ==
    IF r.raised THEN r ELSE LoadElems(r.s, rest, namespace, publish_change)

LoadElems(s, doc, namespace, publish_change) ==
    IF doc = <<>> THEN [s |-> s, raised |-> FALSE]
    ELSE LoadRest(IF namespace = ALL \/ namespace = Head(doc).ns
                  THEN LoadParameterFromXml(s, Head(doc), publish_change)
                  ELSE [s |-> s, raised |-> FALSE],
                  Tail(doc), namespace, publish_change)

LoadOutcome(r) == [s |-> r.s, raised |-> r.raised, ret |-> ~r.raised]

LoadParametersFromFile(s, fs, filename, namespace, publish_change) ==
    IF ~fs[filename].exists
    THEN \* FileNotFoundError is caught
         [s |-> s, raised |-> FALSE, ret |-> FALSE]
    ELSE LoadOutcome(LoadElems(s, ParsedDoc(fs[filename].doc), namespace,
                               publish_change))

----------------------------------------------------------------------------
(* parameter_cb *)

(* The response after a branch that returns nothing: the "OK" built first, *)
(* unless an exception left parameter_cb.                                  *)
Ack(r, fs) == [s |-> r.s, fs |-> fs, msg |-> IF r.raised THEN FAULT ELSE OK]

Reply(r, fs) == [s |-> r.s, fs |-> fs, msg |-> r.msg]

Fallthrough_Purge(s, fs) == [s |-> [s EXCEPT !.db = <<>>], fs |-> fs, msg |-> OK]

(* No branch of the if/elif chain takes the command: msg is still the "OK" *)
(* built at the top.                                                       *)
Fallthrough(s, fs) == [s |-> s, fs |-> fs, msg |-> OK]

Dispatch(s, fs, message, c) ==
    IF c = "put"
    THEN Ack(PutParameterInDb(s, message.namespace, message.nodename,
                              message.type, message.name, message.value, TRUE), fs)
    ELSE IF c = "get"
    THEN Reply(GetParameterFromDb(s, message.namespace, message.name), fs)
    ELSE IF c = "list"
    THEN [s |-> s, fs |-> fs,
          msg |-> Resp("list", ListItems(s, s.db, message.namespace))]
    ELSE IF c = "purge"
    THEN [s |-> Purge(s, message.namespace), fs |-> fs, msg |-> OK]
    ELSE IF c = "save"
    THEN [s |-> s,
          fs |-> SaveParametersToFile(s, fs, message.filename, message.namespace),
          msg |-> OK]
    ELSE IF c = "load"
    THEN Ack(LoadParametersFromFile(s, fs, message.filename,
                                    message.namespace, message.publish_change), fs)
    ELSE Fallthrough(s, fs)

ParameterCb(s, fs, message) == Dispatch(s, fs, message, Lower(message.cmd))

----------------------------------------------------------------------------
(* process_changes: one pass over every namespace channel *)

ChannelAfter_Retry(ch, ok) ==
    IF ch.st = "queue" \/ ch.st = "nopub"
    THEN [ch EXCEPT !.st = IF ok THEN "pub" ELSE "nopub"]
    ELSE IF ch.st = "pub" /\ Len(ch.q) > 0 THEN [ch EXCEPT !.q = Tail(@)]
    ELSE ch

(* ok[n] is whether pub.advertise() succeeds for namespace n on this pass. *)
ChannelAfter(ch, ok) ==
    IF ch.st = "queue" THEN [ch EXCEPT !.st = IF ok THEN "pub" ELSE "nopub"]
    ELSE IF ch.st = "pub" /\ Len(ch.q) > 0 THEN [ch EXCEPT !.q = Tail(@)]
    ELSE ch

PublishedAfter_OnAdvertise(ch, log, rs, vs) ==
    IF (ch.st = "pub" \/ ch.st = "queue") /\ Len(ch.q) > 0
    THEN Append(log, Deref(rs[Head(ch.q)], vs))
    ELSE log

(* msg = create_message_dictionary(param_entry); pub.publish(msg) *)
PublishedAfter(ch, log, rs, vs) ==
    IF ch.st = "pub" /\ Len(ch.q) > 0
    THEN Append(log, Deref(rs[Head(ch.q)], vs))
    ELSE log

(* Which object that was: the index of the record taken off the queue. *)
PubIdsAfter(ch, ids) ==
    IF ch.st = "pub" /\ Len(ch.q) > 0 THEN Append(ids, Head(ch.q)) ELSE ids

----------------------------------------------------------------------------
(* The state machine *)

Cur == State(db, recs, vals, chans)

Start(m) ==
    /\ mode = m
    /\ pc = "start"
    /\ db = <<>>
    /\ recs = <<>>
    /\ vals = <<>>
    /\ chans = [n \in Namespaces |-> NoChannel]
    /\ adv = [n \in Namespaces |-> 0]
    /\ published = [n \in Namespaces |-> <<>>]
    /\ files \in [Filenames -> InitFiles]
    /\ last = NoMsg
    /\ prev = NoMsg
    /\ resp = OK
    /\ ncmds = 0
    /\ nsteps = 0
    /\ born = <<>>
    /\ pubIds = [n \in Namespaces |-> <<>>]

Init == Start("wide")

(* The records the step added to recs, as they show after it. *)
Born(queued) ==
    born' = born \o [i \in 1..(Len(recs') - Len(recs)) |->
                        [snap |-> Deref(recs'[Len(recs) + i], vals'), queued |-> queued]]

StartupDone(r) ==
    /\ pc' = IF r.raised THEN "crashed" ELSE "run"
    /\ db' = r.s.db
    /\ recs' = r.s.recs
    /\ vals' = r.s.vals
    /\ chans' = r.s.chans

(* __main__: the load of the default parameters file before the loop *)
Startup ==
    /\ pc = "start"
    /\ StartupDone(LoadParametersFromFile(Cur, files, DefaultFile, ALL, TRUE))
    /\ Born(TRUE)
    /\ UNCHANGED <<adv, published, files, last, prev, resp, ncmds, nsteps, mode, pubIds>>

Handled(r) ==
    /\ db' = r.s.db
    /\ recs' = r.s.recs
    /\ vals' = r.s.vals
    /\ chans' = r.s.chans
    /\ files' = r.fs
    /\ resp' = r.msg

(* The command puts the records it builds on a queue. *)
Publishes(message) ==
    \/ Lower(message.cmd) = "put"
    \/ Lower(message.cmd) = "load" /\ message.publish_change

(* A "queue" run takes puts until QMAX + ExtraPuts records are built and    *)
(* MaxExtra other commands; its passes of process_changes are not counted. *)
Allowed(message) ==
    IF mode = "wide" THEN nsteps < MaxSteps
    ELSE IF mode = "file" THEN nsteps < MaxFileSteps
    ELSE IF Lower(message.cmd) = "put" THEN Len(recs) < QMAX + ExtraPuts
    ELSE nsteps < MaxExtra

Charge(message) == IF mode = "queue" /\ Lower(message.cmd) = "put" THEN 0 ELSE 1

(* One call of parameter_cb by the service. *)
Handle(message) ==
    /\ pc = "run"
    /\ Allowed(message)
    /\ Handled(ParameterCb(Cur, files, message))
    /\ Born(Publishes(message))
    /\ prev' = last
    /\ last' = message
    /\ ncmds' = ncmds + 1
    /\ nsteps' = nsteps + Charge(message)
    /\ UNCHANGED <<pc, adv, published, mode, pubIds>>

(* Puts that name a parameter take every nodename, type and value; puts   *)
(* that name a position come from one client ("n2", type String) and      *)
(* carry a str element.                                                   *)
PutMsgs ==
    {PutMsg(c, n, nd, t, nm, v) : c \in {"put"}, n \in Namespaces, nd \in Nodenames,
                                  t \in Types, nm \in PlainNames, v \in Values}
    \cup
    {PutMsg(c, n, nd, t, nm, v) : c \in {"put"}, n \in Namespaces, nd \in {"n2"},
                                  t \in {"String"}, nm \in PosNames, v \in Elements}

GetMsgs == {GetMsg(c, n, nm) : c \in {"get"}, n \in Filters,
                               nm \in PlainNames \cup {<<"k", ":", "[">>}}

ListMsgs == {NsMsg(c, n) : c \in {"list", "LIST"}, n \in Filters}

PurgeMsgs == {NsMsg(c, n) : c \in {"purge"}, n \in Filters}

SaveMsgs == {FileMsg(c, f, n, FALSE) : c \in {"save"}, f \in Filenames, n \in Filters}

LoadMsgs == {FileMsg(c, f, n, p) : c \in {"load"}, f \in Filenames, n \in Filters,
                                   p \in BOOLEAN}

OtherMsgs == {NsMsg(c, n) : c \in {"delete"}, n \in {ALL}}

(* A "queue" run: one client that keeps putting the same parameter, and    *)
(* one command of each other kind.                                         *)
QueuePutMsgs == {PutMsg("put", <<"a">>, "n1", "String", <<"k">>, Str("x"))}

QueueGetMsgs == {GetMsg("get", <<"a">>, <<"k">>)}

QueueListMsgs == {NsMsg("list", ALL)}

QueuePurgeMsgs == {NsMsg("purge", <<"a">>)}

QueueSaveMsgs == {FileMsg("save", DefaultFile, ALL, FALSE)}

QueueLoadMsgs == {FileMsg("load", DefaultFile, ALL, TRUE)}

(* A "file" run: String parameters, one of them with a line feed in its    *)
(* value, and the '@' filter.                                              *)
FileValues == {Str("x"), Str(Join(<<"a", "\n", "b">>))}

FilePutMsgs == {PutMsg("put", n, "n1", "String", <<"k">>, v) :
                    n \in Namespaces, v \in FileValues}

FilePurgeMsgs == {NsMsg("purge", ALL)}

FileLoadMsgs == {FileMsg("load", DefaultFile, ALL, FALSE)}

(* The messages of the run's workload *)
Msgs(wide, queue, file) ==
    IF mode = "wide" THEN wide ELSE IF mode = "queue" THEN queue ELSE file

Put == \E m \in Msgs(PutMsgs, QueuePutMsgs, FilePutMsgs) : Handle(m)

Get == \E m \in Msgs(GetMsgs, QueueGetMsgs, QueueGetMsgs) : Handle(m)

List == \E m \in Msgs(ListMsgs, QueueListMsgs, QueueListMsgs) : Handle(m)

PurgeCmd == \E m \in Msgs(PurgeMsgs, QueuePurgeMsgs, FilePurgeMsgs) : Handle(m)

Save == \E m \in Msgs(SaveMsgs, QueueSaveMsgs, QueueSaveMsgs) : Handle(m)

Load == \E m \in Msgs(LoadMsgs, QueueLoadMsgs, FileLoadMsgs) : Handle(m)

Other == \E m \in OtherMsgs : Handle(m)

(* One iteration of the main loop's body. *)
ProcessChanges ==
    /\ pc = "run"
    /\ mode = "wide" => nsteps < MaxSteps
    /\ mode = "file" => nsteps < MaxFileSteps
    /\ nsteps' = IF mode = "queue" THEN nsteps ELSE nsteps + 1
    /\ \E ok \in [Namespaces -> BOOLEAN] :
          /\ chans' = [n \in Namespaces |-> ChannelAfter(chans[n], ok[n])]
          /\ adv' = [n \in Namespaces |->
                        IF chans[n].st = "queue" THEN adv[n] + 1 ELSE adv[n]]
          /\ published' = [n \in Namespaces |->
                              PublishedAfter(chans[n], published[n], recs, vals)]
          /\ pubIds' = [n \in Namespaces |-> PubIdsAfter(chans[n], pubIds[n])]
    /\ UNCHANGED <<pc, db, recs, vals, files, last, prev, resp, ncmds, mode, born>>

Next ==
    \/ Startup
    \/ Put
    \/ Get
    \/ List
    \/ PurgeCmd
    \/ Save
    \/ Load
    \/ Other
    \/ ProcessChanges

Spec == Init /\ [][Next]_vars

(* A run that fills a queue beyond QMAX and drains it *)
InitQueue == Start("queue")

SpecQueue == InitQueue /\ [][Next]_vars

SpecQueueFair_NoTimeout == SpecQueue

(* The main loop calls process_changes after every spin_once, and spin_once *)
(* returns after 1/QMAX s at the latest, with or without a command.        *)
SpecQueueFair == SpecQueue /\ WF_vars(ProcessChanges)

(* A run that saves, purges and loads String parameters *)
InitFile == Start("file")

SpecFile == InitFile /\ [][Next]_vars

----------------------------------------------------------------------------
(* Views used by the properties *)

(* The registry as a reader sees it: every key with its record by content. *)
StoreViewOf(d, rs, vs) ==
    [i \in 1..Len(d) |-> [key |-> d[i].key, rec |-> Deref(rs[d[i].rid], vs)]]

StoreView == StoreViewOf(db, recs, vals)

RecordAt(d, rs, vs, key) == Deref(rs[DbGet(d, key)], vs)

Range(seq) == {seq[i] : i \in 1..Len(seq)}

Is(m, c) == Lower(m.cmd) = c

(* This step is parameter_cb handling a command c; last' is its message. *)
CmdStep(c) == ncmds' = ncmds + 1 /\ Is(last', c)

Positional(name) == Contains(name, ":")

(* The key a put message addresses. *)
KeyOf(m) == ParamName(m.namespace, SplitName(m.name).pname)

TokenOf(m) == SplitName(m.name).pos[1]

(* The put message m names a position and SplitName accepts it. *)
WellFormedPositional(m) == Positional(m.name) /\ ~SplitName(m.name).raised

IsFound(r) == "found" \in r.keys /\ r.found = TRUE

----------------------------------------------------------------------------
(* C1 as written: a put (n, nodename, t, k, v) followed by a get (n, k)     *)
(* returns a record with value v, type t and found = true, for every name  *)
(* k of the put command.                                                   *)
C1_PutThenGet ==
    (Is(last, "get") /\ Is(prev, "put")
       /\ last.namespace = prev.namespace /\ last.name = prev.name)
    => /\ resp.kind = "dict"
       /\ resp.data[1].value = prev.value
       /\ resp.data[1].type = prev.type
       /\ IsFound(resp.data[1])

(* C1 as amended: the same, for every name k that holds no ':' (a name     *)
(* without a position token).                                              *)
C1_PutThenGetPlainName ==
    (Is(last, "get") /\ Is(prev, "put")
       /\ last.namespace = prev.namespace /\ last.name = prev.name
       /\ ~Positional(prev.name))
    => /\ resp.kind = "dict"
       /\ resp.data[1].value = prev.value
       /\ resp.data[1].type = prev.type
       /\ IsFound(resp.data[1])

C1_Witness ==
    /\ Is(last, "get") /\ Is(prev, "put")
    /\ last.namespace = prev.namespace /\ last.name = prev.name
    /\ ~Positional(prev.name)
    /\ prev.value = Lst(<<"x", "y">>) /\ prev.type = "Dict"
    /\ resp.kind = "dict" /\ resp.data[1].value = Lst(<<"x", "y">>)

(* C2: a put whose name carries a position token leaves the target key as  *)
(* it was when the key is absent or holds a scalar: still absent, or still *)
(* holding its prior scalar value.                                         *)
C2_PositionalOnAbsentOrScalarIsNoOp ==
    [][(CmdStep("put") /\ Positional(last'.name))
       => LET key == KeyOf(last')
          IN  /\ ~Exists(db, key) => ~Exists(db', key)
              /\ (Exists(db, key) /\ RecordAt(db, recs, vals, key).value.kind = "str")
                 => /\ Exists(db', key)
                    /\ RecordAt(db', recs', vals', key).value
                         = RecordAt(db, recs, vals, key).value]_vars

(* C3: a positional put on an existing list or dict value adds exactly one *)
(* element and changes nothing else in the value: '[' puts the element in  *)
(* front of the old items, ']' behind them; on a dict the position is the  *)
(* key that is set, every other key keeps its value; and the stored type   *)
(* tag becomes List (list target) or Dict (dict target).                   *)
C3_PositionalAddsOneElement ==
    [][(CmdStep("put") /\ WellFormedPositional(last') /\ Exists(db, KeyOf(last')))
       => LET key == KeyOf(last')
              tok == TokenOf(last')
              v == last'.value.s
              old == RecordAt(db, recs, vals, key)
              new == RecordAt(db', recs', vals', key)
          IN  /\ (old.value.kind = "list" /\ tok \in {<<"[">>, <<"]">>})
                 => /\ new.value.kind = "list"
                    /\ new.type = "List"
                    /\ Len(new.value.items) = Len(old.value.items) + 1
                    /\ tok = <<"[">> =>
                         /\ new.value.items[1] = v
                         /\ \A i \in 1..Len(old.value.items) :
                               new.value.items[i + 1] = old.value.items[i]
                    /\ tok = <<"]">> =>
                         /\ new.value.items[Len(new.value.items)] = v
                         /\ \A i \in 1..Len(old.value.items) :
                               new.value.items[i] = old.value.items[i]
              /\ old.value.kind = "dict"
                 => /\ new.value.kind = "dict"
                    /\ new.type = "Dict"
                    /\ [k |-> tok, v |-> v] \in Range(new.value.pairs)
                    /\ \A e \in Range(old.value.pairs) :
                          e.k # tok => e \in Range(new.value.pairs)
                    /\ \A e \in Range(new.value.pairs) :
                          e.k # tok => e \in Range(old.value.pairs)
                    /\ Len(new.value.pairs)
                         = Len(old.value.pairs) + (IF HasKey(old.value.pairs, tok)
                                                   THEN 0 ELSE 1)]_vars

C3_Witness ==
    /\ Is(last, "put") /\ last.name = <<"k", ":", "[">> /\ last.type = "String"
    /\ Is(prev, "put") /\ prev.value = Lst(<<"x", "y">>)
    /\ prev.namespace = last.namespace
    /\ Exists(db, KeyOf(last))
    /\ RecordAt(db, recs, vals, KeyOf(last)).value = Lst(<<"y", "x", "y">>)
    /\ RecordAt(db, recs, vals, KeyOf(last)).type = "List"

(* C4: a purge with a namespace n other than '@' deletes exactly the       *)
(* records whose namespace is n: every record of another namespace is      *)
(* still there and unchanged, and no record of namespace n remains.        *)
C4_PurgeNamespaceOnly ==
    [][(CmdStep("purge") /\ last'.namespace # ALL)
       => LET before == Range(StoreView)
              after == Range(StoreViewOf(db', recs', vals'))
          IN  /\ \A e \in before : e.rec.namespace # last'.namespace => e \in after
              /\ \A e \in after : e \in before /\ e.rec.namespace # last'.namespace]_vars

C4_Witness ==
    /\ Is(last, "purge") /\ last.namespace = <<"a">>
    /\ Len(db) = 1 /\ recs[db[1].rid].namespace = <<"b">>
    /\ \E i \in 1..Len(recs) : recs[i].namespace = <<"a">>

(* C5: after a purge with namespace '@' the registry holds no record; a    *)
(* list('@') that follows returns the empty sequence and a get that        *)
(* follows returns found = false.                                          *)
C5_PurgeAllEmpties ==
    /\ (Is(last, "purge") /\ last.namespace = ALL)
       => /\ db = <<>>
          /\ ListItems(Cur, db, ALL) = <<>>
          /\ \A m \in GetMsgs :
                ~GetParameterFromDb(Cur, m.namespace, m.name).msg.data[1].found
    /\ (Is(prev, "purge") /\ prev.namespace = ALL /\ Is(last, "list")
          /\ last.namespace = ALL)
       => resp = Resp("list", <<>>)
    /\ (Is(prev, "purge") /\ prev.namespace = ALL /\ Is(last, "get"))
       => resp.kind = "dict" /\ resp.data[1].found = FALSE

C5_Witness ==
    /\ Is(prev, "purge") /\ prev.namespace = ALL
    /\ Is(last, "list") /\ last.namespace = ALL
    /\ resp = Resp("list", <<>>)
    /\ Len(recs) = 2

(* C6: a get or a list never changes the registry: every stored record has *)
(* the same fields and values after the read as before it (the found flag  *)
(* is in the get response only).                                           *)
C6_ReadsDoNotMutate ==
    [][(CmdStep("get") \/ CmdStep("list"))
       => StoreViewOf(db', recs', vals') = StoreView]_vars

(* C7: a get on a key the registry does not hold returns the placeholder   *)
(* (value '?', type String, found = false) and creates no record: the      *)
(* registry is unchanged and a list that follows does not show the key.    *)
C7_GetMissCreatesNothing ==
    [][(CmdStep("get") /\ ~Exists(db, ParamName(last'.namespace, last'.name)))
       => /\ resp'.kind = "dict" /\ Len(resp'.data) = 1
          /\ resp'.data[1].value = Str("?")
          /\ resp'.data[1].type = "String"
          /\ "found" \in resp'.data[1].keys /\ resp'.data[1].found = FALSE
          /\ StoreViewOf(db', recs', vals') = StoreView
          /\ ~Exists(db', ParamName(last'.namespace, last'.name))
          /\ \A r \in Range(ListItems(State(db', recs', vals', chans'), db', ALL)) :
                ~(r.namespace = last'.namespace /\ r.name = last'.name)]_vars

C7_Witness ==
    /\ Is(last, "get") /\ last.namespace = <<"b">> /\ last.name = <<"k">>
    /\ resp.kind = "dict" /\ resp.data[1].found = FALSE
    /\ resp.data[1].value = Str("?")
    /\ Len(db) = 1

(* C8: in every reachable state each stored record's type tag agrees with  *)
(* the shape of its value: type List implies a list value, type Dict       *)
(* implies a dict value.                                                   *)
C8_TypeAgreesWithShape ==
    \A e \in Range(StoreView) :
       /\ e.rec.type = "List" => e.rec.value.kind = "list"
       /\ e.rec.type = "Dict" => e.rec.value.kind = "dict"

(* C9: every command handled by parameter_cb produces a response; no       *)
(* failure escapes it.                                                     *)
C9_EveryCommandAnswered == resp.kind # "fault"

(* C10: a put to an existing list-valued parameter with a position token   *)
(* other than '[' or ']' leaves the stored record (value, type, nodename)  *)
(* as it was, and the caller receives the OK acknowledgment.               *)
C10_InvalidListPositionIsNoOp ==
    [][(CmdStep("put") /\ WellFormedPositional(last')
          /\ Exists(db, KeyOf(last'))
          /\ RecordAt(db, recs, vals, KeyOf(last')).value.kind = "list"
          /\ TokenOf(last') \notin {<<"[">>, <<"]">>})
       => LET old == RecordAt(db, recs, vals, KeyOf(last'))
              new == RecordAt(db', recs', vals', KeyOf(last'))
          IN  /\ new.value = old.value
              /\ new.type = old.type
              /\ new.nodename = old.nodename
              /\ resp' = OK]_vars

----------------------------------------------------------------------------
(* Views of the queues *)

(* The records put on the queue of namespace n so far, oldest first. *)
Enqueued(n) ==
    SelectSeq([i \in 1..Len(born) |-> i],
              LAMBDA i : born[i].queued /\ recs[i].namespace = n)

(* This step is one pass of process_changes. *)
TickStep == ncmds' = ncmds /\ pc = "run" /\ pc' = "run"

----------------------------------------------------------------------------
(* C11: when QMAX+1 entries have been enqueued for a namespace and none was *)
(* dequeued in between (a dequeue takes the head, so the oldest was never  *)
(* published), exactly the oldest is dropped: what was published so far    *)
(* followed by what is still queued is the other QMAX entries in enqueue   *)
(* order, starting with the second-oldest.                                 *)
C11_OldestDroppedRestFifo ==
    \A n \in Namespaces :
        (Len(Enqueued(n)) = QMAX + 1 /\ Enqueued(n)[1] \notin Range(pubIds[n]))
        => pubIds[n] \o chans[n].q = Tail(Enqueued(n))

(* QMAX+1 entries were enqueued and the ticks published all that was left. *)
C11_Witness ==
    \E n \in Namespaces :
        /\ Len(Enqueued(n)) = QMAX + 1
        /\ chans[n].q = <<>>
        /\ Len(pubIds[n]) = QMAX
        /\ pubIds[n] = Tail(Enqueued(n))

----------------------------------------------------------------------------
(* This step is a put command for namespace n that returned normally. *)
PutStepFor(n) == CmdStep("put") /\ last'.namespace = n /\ resp' = OK

(* C12: advertise is called at most once per namespace; once it has failed *)
(* for a namespace, no step calls it again, publishes or dequeues for that *)
(* namespace, a pass of process_changes leaves its queue as it is, and a   *)
(* put still adds its entry at the tail, evicting the head of a full queue.*)
C12_FailureIsSticky ==
    [][\A n \in Namespaces :
          /\ adv'[n] <= 1
          /\ chans[n].st = "nopub" =>
                /\ chans'[n].st = "nopub"
                /\ adv'[n] = adv[n]
                /\ published'[n] = published[n]
                /\ pubIds'[n] = pubIds[n]
                /\ TickStep => chans'[n].q = chans[n].q
                /\ PutStepFor(n) =>
                      /\ Len(chans'[n].q) =
                            IF Len(chans[n].q) = QMAX THEN QMAX ELSE Len(chans[n].q) + 1
                      /\ chans'[n].q[Len(chans'[n].q)] = Len(recs')]_vars

(* Advertise failed for one namespace, whose queue then filled and evicted *)
(* and was never drained, while passes went on publishing for the other.   *)
C12_Witness ==
    \E n, o \in Namespaces :
        /\ chans[n].st = "nopub" /\ adv[n] = 1
        /\ Len(chans[n].q) = QMAX /\ Len(Enqueued(n)) > QMAX
        /\ published[n] = <<>>
        /\ chans[o].st = "pub" /\ Len(published[o]) > 0

----------------------------------------------------------------------------
(* The put message m is one the registry must not act on: it names a       *)
(* position in a parameter that is absent or holds a scalar, or a position *)
(* other than '[' and ']' in a list.                                       *)
NoOpPut(m) ==
    /\ WellFormedPositional(m)
    /\ IF ~Exists(db, KeyOf(m)) THEN TRUE
       ELSE \/ RecordAt(db, recs, vals, KeyOf(m)).value.kind = "str"
            \/ /\ RecordAt(db, recs, vals, KeyOf(m)).value.kind = "list"
               /\ TokenOf(m) \notin {<<"[">>, <<"]">>}

QueuesSame == \A n \in Namespaces : chans'[n].q = chans[n].q

(* The step put one new entry at the tail of the queue of n and left the   *)
(* other queues alone.                                                     *)
EnqueuedOneFor(n) ==
    /\ Len(recs') = Len(recs) + 1
    /\ Len(chans'[n].q) = IF Len(chans[n].q) = QMAX THEN QMAX ELSE Len(chans[n].q) + 1
    /\ chans'[n].q[Len(chans'[n].q)] = Len(recs')
    /\ \A o \in Namespaces \ {n} : chans'[o].q = chans[o].q

(* C13: a put that succeeds enqueues exactly one entry, in the queue of    *)
(* its own namespace; a put that is a no-op (position in an absent or      *)
(* scalar parameter, invalid list position) enqueues nothing; get, list,   *)
(* purge, save and a load with publish_change false enqueue nothing.       *)
C13_OneEntryPerSuccessfulPut ==
    [][/\ (CmdStep("put") /\ resp' = OK /\ ~NoOpPut(last'))
             => EnqueuedOneFor(last'.namespace)
       /\ (CmdStep("put") /\ NoOpPut(last')) => QueuesSame
       /\ (CmdStep("get") \/ CmdStep("list") \/ CmdStep("purge") \/ CmdStep("save")
             \/ (CmdStep("load") /\ ~last'.publish_change))
             => QueuesSame]_vars

----------------------------------------------------------------------------
(* The (namespace, name, type, value) tuples of a registry of scalars *)
TuplesOf(view) ==
    {[ns |-> view[i].rec.namespace, name |-> view[i].rec.name,
      type |-> view[i].rec.type, value |-> view[i].rec.value.s] : i \in 1..Len(view)}

(* The same tuples as a parameters file states them *)
DocTuples(doc) ==
    {[ns |-> doc[i].ns, name |-> doc[i].name, type |-> doc[i].type,
      value |-> doc[i].value] : i \in 1..Len(doc)}

AllStringScalars(view) ==
    \A i \in 1..Len(view) :
        view[i].rec.type = "String" /\ view[i].rec.value.kind = "str"

(* A file as a save of String-typed scalar records leaves it. *)
StringDoc(doc) ==
    \A i \in 1..Len(doc) : doc[i].type = "String" /\ ~Positional(doc[i].name)

(* C14: save '@' of a registry of String-typed scalar records writes a     *)
(* file that states exactly the registry's (namespace, name, type, value)  *)
(* tuples, and load '@' of such a file into an empty registry leaves a     *)
(* registry with exactly the file's tuples: together, the round trip       *)
(* loses, adds and alters no record.                                       *)
C14_SaveLoadRoundTrip ==
    [][/\ (CmdStep("save") /\ last'.namespace = ALL /\ AllStringScalars(StoreView))
             => DocTuples(files'[last'.filename].doc) = TuplesOf(StoreView)
       /\ (CmdStep("load") /\ last'.namespace = ALL /\ db = <<>>
              /\ files[last'.filename].exists /\ StringDoc(files[last'.filename].doc))
             => TuplesOf(StoreView') = DocTuples(files[last'.filename].doc)]_vars

----------------------------------------------------------------------------
(* Some record of the registry is named name, under whatever namespace. *)
NamedAnywhere(name) == \E i \in 1..Len(StoreView) : StoreView[i].rec.name = name

(* The (namespace, name) pairs of a registry and of a parameters file *)
NamesOf(view) ==
    {[ns |-> view[i].rec.namespace, name |-> view[i].rec.name] : i \in 1..Len(view)}

DocNames(doc) == {[ns |-> doc[i].ns, name |-> doc[i].name] : i \in 1..Len(doc)}

(* '@' as list, purge, save and load take it: every namespace is covered. *)
SentinelCoversAll ==
    /\ (CmdStep("list") /\ last'.namespace = ALL)
          => /\ resp'.kind = "list"
             /\ resp'.data = [i \in 1..Len(StoreView) |-> StoreView[i].rec]
    /\ (CmdStep("purge") /\ last'.namespace = ALL) => db' = <<>>
    /\ (CmdStep("save") /\ last'.namespace = ALL)
          => /\ Len(files'[last'.filename].doc) = Len(db)
             /\ DocNames(files'[last'.filename].doc) = NamesOf(StoreView)
    /\ (CmdStep("load") /\ last'.namespace = ALL /\ resp' = OK
           /\ files[last'.filename].exists)
          => DocNames(files[last'.filename].doc) \subseteq NamesOf(StoreView')

(* C15 as written: '@' means every namespace for list, purge, save, load   *)
(* and get alike: get('@', k) returns a record named k, found = true, when *)
(* a record named k is stored under any namespace.                         *)
C15_SentinelUniform ==
    [][/\ SentinelCoversAll
       /\ (CmdStep("get") /\ last'.namespace = ALL /\ NamedAnywhere(last'.name))
             => /\ IsFound(resp'.data[1])
                /\ resp'.data[1].name = last'.name]_vars

(* C15 as amended: '@' means every namespace for list, purge, save and     *)
(* load; get looks up the one key namespace/name and gives '@' no special  *)
(* meaning, so get('@', k) finds a record only under the key "@/k" and     *)
(* answers the found = false placeholder when k is stored under other      *)
(* namespaces only.                                                        *)
C15_SentinelForFiltersOnly ==
    [][/\ SentinelCoversAll
       /\ CmdStep("get")
             => IsFound(resp'.data[1])
                  = Exists(db, ParamName(last'.namespace, last'.name))
       /\ (CmdStep("get") /\ last'.namespace = ALL
              /\ ~Exists(db, ParamName(ALL, last'.name)))
             => resp'.data[1] = Placeholder(ALL, last'.name)]_vars

(* get('@', k) was answered with the placeholder while k is stored under a *)
(* namespace.                                                              *)
C15_Witness ==
    /\ Is(last, "get") /\ last.namespace = ALL
    /\ NamedAnywhere(last.name)
    /\ resp.kind = "dict" /\ ~IsFound(resp.data[1])

----------------------------------------------------------------------------
(* The command words of parameter_cb *)
Commands == {"put", "get", "list", "purge", "save", "load"}

(* C16: a command whose cmd, lowered, is none of put, get, list, purge,    *)
(* save, load is answered OK and leaves the registry, the files, every     *)
(* queue and every publisher state as they were.                           *)
C16_UnknownCommandIsNoOp ==
    [][(ncmds' = ncmds + 1 /\ Lower(last'.cmd) \notin Commands)
       => /\ resp' = OK
          /\ db' = db /\ recs' = recs /\ vals' = vals /\ files' = files
          /\ chans' = chans /\ adv' = adv /\ published' = published]_vars

(* An unknown command was handled while the registry and a queue held      *)
(* something.                                                              *)
C16_Witness ==
    /\ ncmds > 0 /\ Lower(last.cmd) \notin Commands
    /\ resp = OK
    /\ db # <<>>
    /\ \E n \in Namespaces : chans[n].q # <<>>

----------------------------------------------------------------------------
(* C17: no queue ever holds more than QMAX entries; a put whose queue is   *)
(* full takes off exactly the head and adds its entry at the tail; after   *)
(* any put the entry it built is the last of its namespace's queue.        *)
C17_QueueBounded ==
    [][\A n \in Namespaces :
          /\ Len(chans[n].q) <= QMAX
          /\ Len(chans'[n].q) <= QMAX
          /\ PutStepFor(n) =>
                /\ chans'[n].q[Len(chans'[n].q)] = Len(recs')
                /\ Len(chans[n].q) = QMAX
                      => chans'[n].q = Append(Tail(chans[n].q), Len(recs'))
                /\ Len(chans[n].q) < QMAX
                      => chans'[n].q = Append(chans[n].q, Len(recs'))]_vars

(* A put has just found its queue full: the oldest entry is gone, the new  *)
(* one is the last of QMAX.                                                *)
C17_Witness ==
    \E n \in Namespaces :
        /\ Is(last, "put") /\ last.namespace = n
        /\ Len(Enqueued(n)) > QMAX
        /\ pubIds[n] = <<>>
        /\ Len(chans[n].q) = QMAX
        /\ chans[n].q[QMAX] = Len(recs)
        /\ Enqueued(n)[1] \notin Range(chans[n].q)

----------------------------------------------------------------------------
(* C18: a step that is not a pass of process_changes (a command, the       *)
(* startup load) creates at most the queue of a channel: it calls no       *)
(* advertise and sets up no publisher.  The first pass that finds the      *)
(* channel with its queue alone calls advertise once and publishes and     *)
(* dequeues nothing for it.  Any later pass calls no advertise, and takes  *)
(* off and publishes the head of the queue, one entry, when the advertise  *)
(* succeeded and the queue is not empty; otherwise it leaves the channel   *)
(* alone.                                                                  *)
C18_DrainTickProtocol ==
    [][\A n \in Namespaces :
          /\ ~TickStep =>
                /\ adv'[n] = adv[n]
                /\ published'[n] = published[n]
                /\ chans'[n].st = chans[n].st
                     \/ (chans[n].st = "absent" /\ chans'[n].st = "queue")
          /\ (TickStep /\ chans[n].st = "queue") =>
                /\ adv[n] = 0 /\ adv'[n] = 1
                /\ chans'[n].st \in {"pub", "nopub"}
                /\ chans'[n].q = chans[n].q
                /\ published'[n] = published[n]
          /\ (TickStep /\ chans[n].st # "queue") =>
                /\ adv'[n] = adv[n]
                /\ chans'[n].st = chans[n].st
                /\ IF chans[n].st = "pub" /\ chans[n].q # <<>>
                   THEN /\ chans'[n].q = Tail(chans[n].q)
                        /\ Len(published'[n]) = Len(published[n]) + 1
                        /\ pubIds'[n] = Append(pubIds[n], Head(chans[n].q))
                   ELSE /\ chans'[n].q = chans[n].q
                        /\ published'[n] = published[n]]_vars

(* A channel was advertised on one pass and drained on later ones while    *)
(* entries were still waiting.                                             *)
C18_Witness ==
    \E n \in Namespaces :
        /\ chans[n].st = "pub" /\ adv[n] = 1
        /\ Len(published[n]) >= 2
        /\ Len(chans[n].q) >= 2

----------------------------------------------------------------------------
(* The most records a "queue" run builds: its puts, and two per load *)
MaxRecs == QMAX + ExtraPuts + 2 * MaxExtra

(* This step puts an entry on the queue of n. *)
EnqueueStep(n) == \E i \in 1..Len(chans'[n].q) : chans'[n].q[i] > Len(recs)

(* C19: with process_changes called again and again, for a namespace whose *)
(* advertise succeeded every entry on the queue leaves it (published from  *)
(* the head, or evicted by an enqueue on the full queue), and if from some *)
(* point on nothing is enqueued for the namespace, its queue is empty from *)
(* some point on.                                                          *)
C19_EventuallyDrained ==
    \A n \in Namespaces :
        /\ \A id \in 1..MaxRecs :
              (chans[n].st = "pub" /\ id \in Range(chans[n].q))
                  ~> (id \notin Range(chans[n].q))
        /\ <>[][~EnqueueStep(n)]_vars
              => <>[](chans[n].st = "pub" => chans[n].q = <<>>)

(* With a publisher in place, one entry was evicted, others were published *)
(* and the queue is empty.                                                 *)
C19_Witness ==
    \E n \in Namespaces :
        /\ chans[n].st = "pub"
        /\ chans[n].q = <<>>
        /\ pubIds[n] # <<>>
        /\ \E i \in 1..Len(Enqueued(n)) : Enqueued(n)[i] \notin Range(pubIds[n])

----------------------------------------------------------------------------
(* C20: every published change entry is the entry as it was when its       *)
(* command enqueued it: same keys (no found), same nodename, namespace,    *)
(* type, name, position and value, whatever was handled in between.        *)
C20_PublishedIsSnapshot ==
    \A n \in Namespaces :
        \A j \in 1..Len(published[n]) :
            published[n][j] = born[pubIds[n][j]].snap

====
